---- MODULE Spec2Model ----
(***************************************************************************)
(* A model of cherry, a merge-queue bot (cryslith/cherry).                 *)
(*                                                                         *)
(*   SpecControl  the controller (src/control/mod.rs): request, initiate   *)
(*                and construct run as concurrent tasks against the two    *)
(*                tables; every database statement and every outbound      *)
(*                HTTP call is one step (each is an .await point).         *)
(*   SpecToken    the token cache (src/github/client.rs): app-token and    *)
(*                installation-token lookups behind the shared mutex.      *)
(*   SpecWebhook  the webhook intake (src/github/webhook/mod.rs) and the   *)
(*                issue_comment handler it spawns.                         *)
(*   SpecMigrate  migrate (src/db.rs), run again and again on one store.    *)
(*   SpecParse    Command::parse_comment (src/control/command.rs) applied  *)
(*                to every comment text up to MaxLen characters.           *)
(*                                                                         *)
(* The database is the store behind quaint: a statement issued on the      *)
(* handle is applied at once; a statement issued on an open Transaction is *)
(* held until commit and discarded when the Transaction is dropped; a      *)
(* statement issued on a Transaction after its commit runs directly on the *)
(* connection.                                                             *)
(***************************************************************************)
EXTENDS Integers, Sequences, FiniteSets, TLC

VARIABLES
  \* ---- the store and the controller's tasks
  pull_request,    \* table pull_request: key -> row or NoRow
  merge_attempt,   \* table merge_attempt: a set of rows
  clock,           \* Utc::now().timestamp() as the controller reads it
  uuids,           \* number of ids uuid::Uuid::new_v4 has handed out
  task,            \* the controller tasks (one call of request/initiate/construct each)
  pull0,           \* history: table pull_request as the tasks found it
  \* ---- the token cache and the lookups on it
  now,             \* Utc::now(), in seconds
  app_token,       \* TokenCache::app_token
  installation_tokens,  \* TokenCache::installation_tokens
  mutex,           \* holder of the Mutex<TokenCache>, or "free"
  lk,              \* the tasks looking tokens up
  issued,          \* installation tokens the platform has issued
  calls,           \* lookups started
  last_app,        \* history: the latest app-token lookup, the first token
                   \* minted and the number of tokens minted
  prev_app,        \* history: the token the app-token lookup before it returned
  \* ---- parse_comment
  comment,         \* the comment text handed to parse_comment
  parsed,          \* what parse_comment returned for it, or NotParsed
  \* ---- the webhook intake
  dv,              \* the deliveries POSTed to /webhook and their responses
  hd,              \* the handler task spawned for each delivery
  \* ---- the schema migrator
  migration_table, \* table _migration: whether it exists, and its rows
  mig,             \* the migrate run in progress, and the runs so far
  \* ---- response_ok
  response         \* the status of the response checked last, and the result

ctlvars == <<pull_request, merge_attempt, clock, uuids, task, pull0>>

tokvars == <<now, app_token, installation_tokens, mutex, lk, issued, calls,
             last_app, prev_app>>

parvars == <<comment, parsed>>

webvars == <<dv, hd>>

migvars == <<migration_table, mig>>

rspvars == <<response>>

vars == <<ctlvars, tokvars, parvars, webvars, migvars, rspvars>>

\* ------------------------------------------------------------------ bounds
MaxClock == 1          \* the controller's clock runs 0..MaxClock
MaxCalls == 3          \* token lookups started in one run
MaxTicks == 2          \* the cache's clock advances MaxTicks times
MaxLen == 4            \* every comment text of up to MaxLen symbols is parsed
MaxLines == 2          \* and every text of up to MaxLines of the sample lines
MaxRuns == 3           \* sequential runs of migrate

Tasks == {"t1", "t2"}            \* concurrent controller calls
Repos == {"o/a", "o/b"}          \* (owner, repo) pairs
PrNumbers == {42}
Hashes == {"h1", "h2"}           \* head commits the platform may report
Keys == Repos \X PrNumbers

\* ------------------------------------------------------------ control/mod.rs
PrStates == {"requested", "queued", "merging", "split"}
MergeStates == {"constructing", "testing", "success", "split"}

NoRow == [state |-> "absent"]

PullRow(h, s, ts) == [commit_hash |-> h, state |-> s, timestamp |-> ts]
AttemptRow(i, r, s, ts) == [id |-> i, repo |-> r, state |-> s, timestamp |-> ts]

\* the reply texts of the controller
MsgClosed == "Error: Refusing to merge PR in closed state."
MsgDup == "This PR is already being merged."
MsgDraft == "This PR cannot be merged yet."
MsgCancelled == "Merge cancelled: a new commit was pushed to the PR."

\* Client::pr_info: what the platform reports for a PR at the moment of the call.
PrInfos == [state : {"open", "closed"}, draft : BOOLEAN, commit_hash : Hashes]

ReadyIgnoresDraft(info) == TRUE

\* the readiness check: let ready = !pr_info.draft
Ready(info) == ~info.draft

\* ---- the statements the controller issues
SelectPull(tbl, k) == tbl[k]

InsertPullUnchecked(tbl, k) == FALSE

\* the unique constraint on (owner, repo, number)
InsertPullViolates(tbl, k) == tbl[k] # NoRow

InsertPull(tbl, k, row) == [tbl EXCEPT ![k] = row]

DeleteRequestedPull(tbl, k) ==
  IF tbl[k].state = "requested" THEN [tbl EXCEPT ![k] = NoRow] ELSE tbl

DeletePull(tbl, k) == [tbl EXCEPT ![k] = NoRow]

UpdatePullQueued(tbl, k, ts) ==
  IF tbl[k] = NoRow THEN tbl
  ELSE [tbl EXCEPT ![k] = [@ EXCEPT !.state = "queued", !.timestamp = ts]]

SelectBusy(tbl, r) == {a \in tbl : a.repo = r /\ a.state \in {"constructing", "testing"}}

SelectNotSplit(tbl, r) == {a \in tbl : a.repo = r /\ a.state # "split"}

SelectSplit(tbl, r) == {a \in tbl : a.repo = r /\ a.state = "split"}

UpdateAttemptConstructing(tbl, i, ts) ==
  {IF a.id = i THEN [a EXCEPT !.state = "constructing", !.timestamp = ts] ELSE a : a \in tbl}

InsertAttempt(tbl, row) == tbl \cup {row}

\* ---- a task
Idle == [pc |-> "idle", op |-> "none", repo |-> "o/a", pr |-> 42,
         head |-> "h1", draft |-> FALSE, ready |-> FALSE, tx |-> "none", txw |-> "none", id |-> 0,
         ts |-> 0, seen |-> "none", reply |-> "none", inserted |-> FALSE, result |-> "none"]

KeyOf(t) == <<task[t].repo, task[t].pr>>

Step(t, r) == task' = [task EXCEPT ![t] = r]

\* the task ends (its locals go out of scope); a Transaction it still holds is
\* dropped, and with it what it held
Finish(rec, res) ==
  [rec EXCEPT !.pc = "done", !.result = res, !.txw = "none",
              !.head = "h1", !.draft = FALSE, !.ready = FALSE, !.id = 0, !.ts = 0,
              !.tx = IF rec.tx = "open" THEN "dropped" ELSE rec.tx]

\* a caller starts one of the three operations
Call(t) ==
  /\ task[t].pc = "idle"
  /\ \E op \in {"request", "initiate", "construct"}, r \in Repos, n \in PrNumbers :
       Step(t, [task[t] EXCEPT !.op = op, !.repo = r, !.pr = n,
                  !.pc = CASE op = "request" -> "r_fetch"
                           [] op = "initiate" -> "i_fetch"
                           [] OTHER -> "c_begin"])
  /\ UNCHANGED <<pull_request, merge_attempt, clock, uuids, pull0, tokvars, parvars, webvars, migvars, rspvars>>

Tick ==
  /\ clock < MaxClock
  /\ clock' = clock + 1
  /\ UNCHANGED <<pull_request, merge_attempt, uuids, task, pull0, tokvars, parvars, webvars, migvars, rspvars>>

\* ---- request (control/mod.rs:142-202)
RequestFetchAnyState(t) ==
  /\ task[t].pc = "r_fetch"
  /\ \/ \E info \in PrInfos :
          Step(t, [task[t] EXCEPT !.head = info.commit_hash, !.draft = info.draft,
                     !.ready = Ready(info), !.seen = info.state, !.pc = "r_insert"])
     \/ Step(t, Finish(task[t], "err"))
  /\ UNCHANGED <<pull_request, merge_attempt, clock, uuids, pull0, tokvars, parvars, webvars, migvars, rspvars>>

\* pr_info; a closed PR is refused, an open one goes on to the insert
RequestFetch(t) ==
  /\ task[t].pc = "r_fetch"
  /\ \/ \E info \in PrInfos :
          Step(t, [task[t] EXCEPT !.head = info.commit_hash, !.draft = info.draft,
                     !.ready = Ready(info), !.seen = info.state,
                     !.pc = IF info.state = "closed" THEN "r_reply_closed" ELSE "r_insert"])
     \/ Step(t, Finish(task[t], "err"))
  /\ UNCHANGED <<pull_request, merge_attempt, clock, uuids, pull0, tokvars, parvars, webvars, migvars, rspvars>>

\* comment_on_pr of one of the request replies, then return
RequestReply(t) ==
  /\ task[t].pc \in {"r_reply_closed", "r_reply_dup", "r_reply_draft"}
  /\ LET msg == CASE task[t].pc = "r_reply_closed" -> MsgClosed
                  [] task[t].pc = "r_reply_dup" -> MsgDup
                  [] OTHER -> MsgDraft
     IN \E res \in {"ok", "err"} : Step(t, Finish([task[t] EXCEPT !.reply = msg], res))
  /\ UNCHANGED <<pull_request, merge_attempt, clock, uuids, pull0, tokvars, parvars, webvars, migvars, rspvars>>

RequestInsertOrReplace(t) ==
  /\ task[t].pc = "r_insert"
  /\ pull_request' = InsertPull(pull_request, KeyOf(t),
         PullRow(task[t].head, IF task[t].ready THEN "queued" ELSE "requested", clock))
  /\ Step(t, [task[t] EXCEPT !.inserted = TRUE,
                !.pc = IF task[t].ready THEN "c_begin" ELSE "r_reply_draft"])
  /\ UNCHANGED <<merge_attempt, clock, uuids, pull0, tokvars, parvars, webvars, migvars, rspvars>>

\* the INSERT into pull_request, on the handle: a unique-constraint violation
\* leads to the "already being merged" reply
RequestInsert(t) ==
  /\ task[t].pc = "r_insert"
  /\ IF InsertPullViolates(pull_request, KeyOf(t))
       THEN /\ Step(t, [task[t] EXCEPT !.pc = "r_reply_dup"])
            /\ UNCHANGED pull_request
       ELSE /\ pull_request' = InsertPull(pull_request, KeyOf(t),
                   PullRow(task[t].head, IF task[t].ready THEN "queued" ELSE "requested", clock))
            /\ Step(t, [task[t] EXCEPT !.inserted = TRUE,
                          !.pc = IF task[t].ready THEN "c_begin" ELSE "r_reply_draft"])
  /\ UNCHANGED <<merge_attempt, clock, uuids, pull0, tokvars, parvars, webvars, migvars, rspvars>>

\* ---- initiate (control/mod.rs:204-287)
InitiateFetch(t) ==
  /\ task[t].pc = "i_fetch"
  /\ \/ \E info \in PrInfos :
          LET rec == [task[t] EXCEPT !.seen = info.state]
          IN Step(t, IF info.state = "closed" THEN [rec EXCEPT !.pc = "i_delete_closed"]
                     ELSE IF ~Ready(info) THEN Finish(rec, "ok")
                     ELSE [rec EXCEPT !.head = info.commit_hash, !.ready = TRUE,
                                      !.pc = "i_begin"])
     \/ Step(t, Finish(task[t], "err"))
  /\ UNCHANGED <<pull_request, merge_attempt, clock, uuids, pull0, tokvars, parvars, webvars, migvars, rspvars>>

\* the PR is closed: DELETE on the handle, return
InitiateDeleteClosed(t) ==
  /\ task[t].pc = "i_delete_closed"
  /\ pull_request' = DeletePull(pull_request, KeyOf(t))
  /\ Step(t, Finish(task[t], "ok"))
  /\ UNCHANGED <<merge_attempt, clock, uuids, pull0, tokvars, parvars, webvars, migvars, rspvars>>

InitiateBegin(t) ==
  /\ task[t].pc = "i_begin"
  /\ Step(t, [task[t] EXCEPT !.tx = "open", !.pc = "i_select"])
  /\ UNCHANGED <<pull_request, merge_attempt, clock, uuids, pull0, tokvars, parvars, webvars, migvars, rspvars>>

\* SELECT the row in the transaction; no row or a row not Requested returns
InitiateSelect(t) ==
  /\ task[t].pc = "i_select"
  /\ LET row == SelectPull(pull_request, KeyOf(t))
     IN Step(t, IF row = NoRow \/ row.state # "requested" THEN Finish(task[t], "ok")
                ELSE IF row.commit_hash # task[t].head THEN [task[t] EXCEPT !.pc = "i_delete"]
                ELSE [task[t] EXCEPT !.pc = "i_update"])
  /\ UNCHANGED <<pull_request, merge_attempt, clock, uuids, pull0, tokvars, parvars, webvars, migvars, rspvars>>

\* tx.delete of the row whose head moved
InitiateDelete(t) ==
  /\ task[t].pc = "i_delete"
  /\ Step(t, [task[t] EXCEPT !.txw = "delete", !.pc = "i_commit"])
  /\ UNCHANGED <<pull_request, merge_attempt, clock, uuids, pull0, tokvars, parvars, webvars, migvars, rspvars>>

InitiateCommitRehash(t) ==
  /\ task[t].pc = "i_commit"
  /\ pull_request' = [pull_request EXCEPT ![KeyOf(t)] = [@ EXCEPT !.commit_hash = task[t].head]]
  /\ Step(t, [task[t] EXCEPT !.tx = "committed", !.txw = "none", !.pc = "i_reply"])
  /\ UNCHANGED <<merge_attempt, clock, uuids, pull0, tokvars, parvars, webvars, migvars, rspvars>>

\* tx.commit after the delete
InitiateCommitDelete(t) ==
  /\ task[t].pc = "i_commit"
  /\ pull_request' = DeletePull(pull_request, KeyOf(t))
  /\ Step(t, [task[t] EXCEPT !.tx = "committed", !.txw = "none", !.pc = "i_reply"])
  /\ UNCHANGED <<merge_attempt, clock, uuids, pull0, tokvars, parvars, webvars, migvars, rspvars>>

\* the "Merge cancelled" reply; `?` returns on a failure, success falls out of
\* the `if` to the update below it
InitiateReply(t) ==
  /\ task[t].pc = "i_reply"
  /\ \/ Step(t, [task[t] EXCEPT !.reply = MsgCancelled, !.pc = "i_update"])
     \/ Step(t, Finish([task[t] EXCEPT !.reply = MsgCancelled], "err"))
  /\ UNCHANGED <<pull_request, merge_attempt, clock, uuids, pull0, tokvars, parvars, webvars, migvars, rspvars>>

\* tx.update to Queued: held by an open transaction, applied at once after a commit
InitiateUpdate(t) ==
  /\ task[t].pc = "i_update"
  /\ IF task[t].tx = "open"
       THEN /\ Step(t, [task[t] EXCEPT !.txw = "update", !.ts = clock, !.pc = "i_commit2"])
            /\ UNCHANGED pull_request
       ELSE /\ pull_request' = UpdatePullQueued(pull_request, KeyOf(t), clock)
            /\ Step(t, [task[t] EXCEPT !.pc = "i_commit2"])
  /\ UNCHANGED <<merge_attempt, clock, uuids, pull0, tokvars, parvars, webvars, migvars, rspvars>>

\* the final tx.commit; a second COMMIT on the connection may be refused
InitiateCommit(t) ==
  /\ task[t].pc = "i_commit2"
  /\ IF task[t].tx = "open"
       THEN /\ pull_request' = UpdatePullQueued(pull_request, KeyOf(t), task[t].ts)
            /\ Step(t, Finish([task[t] EXCEPT !.tx = "committed"], "ok"))
       ELSE /\ \E res \in {"ok", "err"} : Step(t, Finish(task[t], res))
            /\ UNCHANGED pull_request
  /\ UNCHANGED <<merge_attempt, clock, uuids, pull0, tokvars, parvars, webvars, migvars, rspvars>>

\* ---- construct (control/mod.rs:289-344)
ConstructBegin(t) ==
  /\ task[t].pc = "c_begin"
  /\ Step(t, [task[t] EXCEPT !.tx = "open", !.pc = "c_select"])
  /\ UNCHANGED <<pull_request, merge_attempt, clock, uuids, pull0, tokvars, parvars, webvars, migvars, rspvars>>

\* SELECT the attempts of the repo not in Split: any row returns Ok
ConstructSelect(t) ==
  /\ task[t].pc = "c_select"
  /\ Step(t, IF SelectNotSplit(merge_attempt, task[t].repo) # {} THEN Finish(task[t], "ok")
              ELSE [task[t] EXCEPT !.pc = "c_select_split"])
  /\ UNCHANGED <<pull_request, merge_attempt, clock, uuids, pull0, tokvars, parvars, webvars, migvars, rspvars>>

\* SELECT the Split attempts of the repo; the first row, if any, is reused
ConstructSelectSplit(t) ==
  /\ task[t].pc = "c_select_split"
  /\ LET rows == SelectSplit(merge_attempt, task[t].repo)
     IN IF rows = {} THEN Step(t, [task[t] EXCEPT !.pc = "c_insert"])
        ELSE \E a \in rows : Step(t, [task[t] EXCEPT !.id = a.id, !.pc = "c_update"])
  /\ UNCHANGED <<pull_request, merge_attempt, clock, uuids, pull0, tokvars, parvars, webvars, migvars, rspvars>>

\* tx.update of the reused row, then todo!(): the panic drops the transaction
ConstructUpdate(t) ==
  /\ task[t].pc = "c_update"
  /\ Step(t, Finish([task[t] EXCEPT !.txw = "update", !.ts = clock], "panic"))
  /\ UNCHANGED <<pull_request, merge_attempt, clock, uuids, pull0, tokvars, parvars, webvars, migvars, rspvars>>

\* the INSERT of a new attempt, issued on self.db (not on tx), then todo!()
ConstructInsert(t) ==
  /\ task[t].pc = "c_insert"
  /\ uuids' = uuids + 1
  /\ merge_attempt' = InsertAttempt(merge_attempt,
                          AttemptRow(uuids + 1, task[t].repo, "constructing", clock))
  /\ Step(t, Finish(task[t], "panic"))
  /\ UNCHANGED <<pull_request, clock, pull0, tokvars, parvars, webvars, migvars, rspvars>>

\* ---- the controller's specification
InitPulls ==
  {[k \in Keys |-> NoRow]} \cup
  {[k \in Keys |-> IF k = k0 THEN PullRow("h1", s, 0) ELSE NoRow] : k0 \in Keys, s \in PrStates}

InitAttempts ==
  {{}} \cup {{AttemptRow(0, r, s, 0)} : r \in Repos, s \in MergeStates}
       \cup {{AttemptRow(0, r, "split", 0), AttemptRow(-1, r, "split", 0)} : r \in Repos}

InitControl ==
  /\ pull_request \in InitPulls
  /\ pull0 = pull_request
  /\ merge_attempt \in InitAttempts
  /\ clock = 0
  /\ uuids = 0
  /\ task = [t \in Tasks |-> Idle]

NextControl ==
  \/ Tick
  \/ \E t \in Tasks :
       \/ Call(t)
       \/ RequestFetch(t)
       \/ RequestReply(t)
       \/ RequestInsert(t)
       \/ InitiateFetch(t)
       \/ InitiateDeleteClosed(t)
       \/ InitiateBegin(t)
       \/ InitiateSelect(t)
       \/ InitiateDelete(t)
       \/ InitiateCommitDelete(t)
       \/ InitiateReply(t)
       \/ InitiateUpdate(t)
       \/ InitiateCommit(t)
       \/ ConstructBegin(t)
       \/ ConstructSelect(t)
       \/ ConstructSelectSplit(t)
       \/ ConstructUpdate(t)
       \/ ConstructInsert(t)

\* the controller at rest, for the specifications of the other components
RestControl ==
  /\ pull_request = [k \in Keys |-> NoRow]
  /\ pull0 = pull_request
  /\ merge_attempt = {}
  /\ clock = 0
  /\ uuids = 0
  /\ task = [t \in Tasks |-> Idle]

\* ---------------------------------------------------------- github/client.rs
APP_TOKEN_LIFESPAN_SECS == 600
APP_TOKEN_RENEW_AHEAD_SECS == 30
REPO_TOKEN_RENEW_AHEAD_SECS == 30

Lookups == {"k1", "k2"}          \* concurrent tasks using one shared cache
NoToken == [token |-> <<>>]
\* the clock advances by half the time an app token stays fresh, so that a
\* lookup can fall before, on and after a renew deadline
TickStep == (APP_TOKEN_LIFESPAN_SECS - APP_TOKEN_RENEW_AHEAD_SECS) \div 2
InstLifetimes == {20, 600}       \* expires_at - now, as the platform sets it

\* the signed JWT is a function of its claim set {iat, exp, iss}
Encode(iat, exp) == <<"jwt", iat, exp>>

\* Credentials::generate_app_token at instant t
GenerateAppToken(t) ==
  LET iat == t
      exp == iat + APP_TOKEN_LIFESPAN_SECS
  IN [token |-> Encode(iat, exp), renew |-> exp - APP_TOKEN_RENEW_AHEAD_SECS]

StaleAtDeadline(tok, t) == tok # NoToken /\ t <= tok.renew

\* the guard of a cache hit: Some(token) if Utc::now() < token.renew
Fresh(tok, t) == tok # NoToken /\ t < tok.renew

AppTokenNoStore(slot, t) ==
  IF Fresh(slot, t) THEN [slot |-> slot, token |-> slot, minted |-> FALSE]
  ELSE [slot |-> slot, token |-> GenerateAppToken(t), minted |-> TRUE]

\* TokenCache::app_token at instant t: the slot afterwards, the token returned
TokenCacheAppToken(slot, t) ==
  IF Fresh(slot, t) THEN [slot |-> slot, token |-> slot, minted |-> FALSE]
  ELSE LET token == GenerateAppToken(t)
       IN [slot |-> token, token |-> token, minted |-> TRUE]

\* the token request_repo_token builds from the platform's {token, expires_at}
RepoTokenOf(n, expires_at) ==
  [token |-> <<"inst", n>>, renew |-> expires_at - REPO_TOKEN_RENEW_AHEAD_SECS]

IdleLookup == [pc |-> "idle", op |-> "none", repo |-> "o/a", ret |-> NoToken]

LkStep(t, r) == lk' = [lk EXCEPT ![t] = r]

\* the lookup returns Ok(tok), or an error (NoToken)
Return(rec, tok) == [rec EXCEPT !.pc = "idle", !.ret = tok]

\* a task starts app_request (an app-token lookup) or repo_request
\* (an installation-token lookup for a repo)
LookupCall(t) ==
  /\ lk[t].pc = "idle"
  /\ calls < MaxCalls
  /\ calls' = calls + 1
  /\ \/ LkStep(t, [IdleLookup EXCEPT !.op = "app", !.pc = "a_lock"])
     \/ \E r \in Repos :
          LkStep(t, [IdleLookup EXCEPT !.op = "repo", !.repo = r, !.pc = "r_lock"])
  /\ UNCHANGED <<now, app_token, installation_tokens, mutex, issued,
                 last_app, prev_app, ctlvars, parvars, webvars, migvars, rspvars>>

AfterLock(pc) ==
  CASE pc = "a_lock" -> "a_body"
    [] pc = "r_lock" -> "r_read"
    [] pc = "q_app1_lock" -> "q_app1_body"
    [] pc = "q_app2_lock" -> "q_app2_body"
    [] OTHER -> "r_insert"

LockGrantedAlways(m) == TRUE

\* Mutex::lock resolves when no guard is alive
LockGranted(m) == m = "free"

\* token_cache.lock().await is granted
Acquire(t) ==
  /\ lk[t].pc \in {"a_lock", "r_lock", "q_app1_lock", "q_app2_lock", "r_lock2"}
  /\ LockGranted(mutex)
  /\ mutex' = t
  /\ LkStep(t, [lk[t] EXCEPT !.pc = AfterLock(lk[t].pc)])
  /\ UNCHANGED <<now, app_token, installation_tokens, issued, calls,
                 last_app, prev_app, ctlvars, parvars, webvars, migvars, rspvars>>

HeldAcrossRequest(t) == t

\* the MutexGuard is a temporary of the statement that locked: it is dropped
\* when the statement ends
GuardDropped(t) == "free"

\* Client::app_token with the guard in hand, the match of TokenCache::app_token:
\* a fresh token is returned and the guard drops; otherwise the `_` arm is taken
AppTokenBody(t) ==
  /\ lk[t].pc \in {"a_body", "q_app1_body", "q_app2_body"}
  /\ IF Fresh(app_token, now)
       THEN LET r == TokenCacheAppToken(app_token, now)
            IN /\ app_token' = r.slot
               /\ prev_app' = last_app.token
               /\ last_app' = [last_app EXCEPT !.at = now, !.token = r.token,
                                               !.minted = r.minted]
               /\ LkStep(t, CASE lk[t].pc = "a_body" -> Return(lk[t], r.token)
                               [] lk[t].pc = "q_app1_body" -> [lk[t] EXCEPT !.pc = "q_http1"]
                               [] OTHER -> [lk[t] EXCEPT !.pc = "q_http2"])
               /\ mutex' = GuardDropped(t)
       ELSE /\ LkStep(t, [lk[t] EXCEPT !.pc =
                            CASE lk[t].pc = "a_body" -> "a_mint"
                              [] lk[t].pc = "q_app1_body" -> "q_app1_mint"
                              [] OTHER -> "q_app2_mint"])
            /\ UNCHANGED <<app_token, prev_app, last_app, mutex>>
  /\ UNCHANGED <<now, installation_tokens, issued, calls, ctlvars, parvars, webvars, migvars, rspvars>>

\* the `_` arm of TokenCache::app_token: generate_app_token at the present
\* instant, store the token whatever the slot holds, return it; the guard drops
AppTokenMint(t) ==
  /\ lk[t].pc \in {"a_mint", "q_app1_mint", "q_app2_mint"}
  /\ LET r == TokenCacheAppToken(NoToken, now)
     IN /\ app_token' = r.slot
        /\ prev_app' = last_app.token
        /\ last_app' = [at |-> now, token |-> r.token, minted |-> r.minted,
                        first |-> IF last_app.first = NoToken THEN r.token
                                  ELSE last_app.first,
                        mints |-> last_app.mints + 1]
        /\ LkStep(t, CASE lk[t].pc = "a_mint" -> Return(lk[t], r.token)
                        [] lk[t].pc = "q_app1_mint" -> [lk[t] EXCEPT !.pc = "q_http1"]
                        [] OTHER -> [lk[t] EXCEPT !.pc = "q_http2"])
  /\ mutex' = GuardDropped(t)
  /\ UNCHANGED <<now, installation_tokens, issued, calls, ctlvars, parvars, webvars, migvars, rspvars>>

\* repo_token: read the slot under the lock, drop the guard, return a fresh
\* token or go on to request_repo_token
RepoTokenRead(t) ==
  /\ lk[t].pc = "r_read"
  /\ mutex' = GuardDropped(t)
  /\ LET maybe_token == installation_tokens[lk[t].repo]
     IN LkStep(t, IF Fresh(maybe_token, now) THEN Return(lk[t], maybe_token)
                  ELSE [lk[t] EXCEPT !.pc = "q_app1_lock"])
  /\ UNCHANGED <<now, app_token, installation_tokens, issued, calls,
                 last_app, prev_app, ctlvars, parvars, webvars, migvars, rspvars>>

\* GET /repos/{owner}/{repo}/installation
RequestInstallation(t) ==
  /\ lk[t].pc = "q_http1"
  /\ \/ LkStep(t, [lk[t] EXCEPT !.pc = "q_app2_lock"])
     \/ LkStep(t, Return(lk[t], NoToken))
  /\ UNCHANGED <<now, app_token, installation_tokens, mutex, issued, calls,
                 last_app, prev_app, ctlvars, parvars, webvars, migvars, rspvars>>

\* POST /app/installations/{id}/access_tokens
RequestAccessToken(t) ==
  /\ lk[t].pc = "q_http2"
  /\ \/ /\ \E life \in InstLifetimes :
             LkStep(t, [lk[t] EXCEPT !.pc = "r_lock2",
                          !.ret = RepoTokenOf(issued + 1, now + life)])
        /\ issued' = issued + 1
     \/ /\ LkStep(t, Return(lk[t], NoToken))
        /\ UNCHANGED issued
  /\ UNCHANGED <<now, app_token, installation_tokens, mutex, calls,
                 last_app, prev_app, ctlvars, parvars, webvars, migvars, rspvars>>

RepoTokenInsertIfAbsent(t) ==
  /\ lk[t].pc = "r_insert"
  /\ mutex' = GuardDropped(t)
  /\ installation_tokens' =
       IF installation_tokens[lk[t].repo] = NoToken
         THEN [installation_tokens EXCEPT ![lk[t].repo] = lk[t].ret]
         ELSE installation_tokens
  /\ LkStep(t, Return(lk[t], lk[t].ret))
  /\ UNCHANGED <<now, app_token, issued, calls, last_app, prev_app, ctlvars, parvars, webvars, migvars, rspvars>>

\* repo_token: insert the new token under the lock and return it
RepoTokenInsert(t) ==
  /\ lk[t].pc = "r_insert"
  /\ mutex' = GuardDropped(t)
  /\ installation_tokens' = [installation_tokens EXCEPT ![lk[t].repo] = lk[t].ret]
  /\ LkStep(t, Return(lk[t], lk[t].ret))
  /\ UNCHANGED <<now, app_token, issued, calls, last_app, prev_app, ctlvars, parvars, webvars, migvars, rspvars>>

TickToken ==
  /\ now + TickStep <= MaxTicks * TickStep
  /\ now' = now + TickStep
  /\ UNCHANGED <<app_token, installation_tokens, mutex, lk, issued, calls,
                 last_app, prev_app, ctlvars, parvars, webvars, migvars, rspvars>>

InitToken ==
  /\ now = 0
  /\ app_token = NoToken
  /\ installation_tokens = [r \in Repos |-> NoToken]
  /\ mutex = "free"
  /\ lk = [t \in Lookups |-> IdleLookup]
  /\ issued = 0
  /\ calls = 0
  /\ last_app = [at |-> 0, token |-> NoToken, minted |-> FALSE,
                 first |-> NoToken, mints |-> 0]
  /\ prev_app = NoToken

NextToken ==
  \/ TickToken
  \/ \E t \in Lookups :
       \/ LookupCall(t)
       \/ Acquire(t)
       \/ AppTokenBody(t)
       \/ AppTokenMint(t)
       \/ RepoTokenRead(t)
       \/ RequestInstallation(t)
       \/ RequestAccessToken(t)
       \/ RepoTokenInsert(t)

\* ------------------------------------------- github/client.rs, response_ok
\* the status codes a response can carry (http::StatusCode: 100 to 999)
MinStatus == 100
MaxStatus == 999
StatusCodes == MinStatus..MaxStatus

\* StatusCode::is_client_error, StatusCode::is_server_error
IsClientError(status) == 400 <= status /\ status < 500
IsServerError(status) == 500 <= status /\ status < 600

\* Client::response_ok; the body carried by the error is left out
ResponseOk(status) ==
  IF ~IsClientError(status) /\ ~IsServerError(status) THEN [ok |-> TRUE]
  ELSE [ok |-> FALSE, error |-> "ServerErrorResponse", status |-> status]

NoResponse == [status |-> 0]

NoResponseYet == response = NoResponse

\* a response arrives and is handed to response_ok
ResponseOkCall ==
  /\ \E status \in StatusCodes :
       response' = [status |-> status, result |-> ResponseOk(status)]
  /\ UNCHANGED <<ctlvars, tokvars, parvars, webvars, migvars>>

NextResponse == ResponseOkCall

\* --------------------------------------------------------- control/command.rs
\* A text is a sequence of symbols: the line feed, the carriage return, the
\* space, and pieces of words (a token is the run of pieces between separators,
\* so <<"cherry">> is the literal `cherry` and <<"cherry", "x">> is not).
Symbols == {"NL", "CR", "SP", "cherry", "ping", "merge", "r+", "x"}

NotParsed == [ok |-> FALSE, token |-> <<>>, cmds |-> <<"-">>]
Ok(cmds) == [ok |-> TRUE, cmds |-> cmds]
Err(token) == [ok |-> FALSE, token |-> token]

\* str::split(c): the pieces between the occurrences of c
RECURSIVE Split(_, _)
Split(s, c) ==
  IF \A i \in 1..Len(s) : s[i] # c THEN <<s>>
  ELSE LET i == CHOOSE j \in 1..Len(s) : s[j] = c /\ \A k \in 1..(j - 1) : s[k] # c
       IN <<SubSeq(s, 1, i - 1)>> \o Split(SubSeq(s, i + 1, Len(s)), c)

StripCR(l) == IF Len(l) > 0 /\ l[Len(l)] = "CR" THEN SubSeq(l, 1, Len(l) - 1) ELSE l

\* str::lines: a line ends at "\n" or "\r\n"; what follows the last line feed
\* is a line only if it is not empty
Lines(s) ==
  LET ps == Split(s, "NL")
      n == Len(ps)
      ended == [i \in 1..(n - 1) |-> StripCR(ps[i])]
  IN IF ps[n] = <<>> THEN ended ELSE ended \o <<ps[n]>>

\* l.split(' ')
Words(l) == Split(l, "SP")

ToCommandDefaultPing(w) ==
  IF Len(w) >= 2 /\ w[2] \in {<<"merge">>, <<"r+">>} THEN Ok(<<"Merge">>) ELSE Ok(<<"Ping">>)

\* the match on the second word of a directive line
ToCommand(w) ==
  IF Len(w) < 2 THEN Err(<<"[none]">>)
  ELSE IF w[2] = <<"ping">> THEN Ok(<<"Ping">>)
  ELSE IF w[2] \in {<<"merge">>, <<"r+">>} THEN Ok(<<"Merge">>)
  ELSE Err(w[2])

IsDirectiveAnyWord(l) == \E i \in 1..Len(Words(l)) : Words(l)[i] = <<"cherry">>

\* the closure of filter_map: None for a line that is no directive
IsDirective(l) == Words(l)[1] = <<"cherry">>

CollectReversed(items) ==
  IF \E i \in 1..Len(items) : ~items[i].ok
    THEN items[CHOOSE i \in 1..Len(items) : ~items[i].ok /\ \A j \in (i + 1)..Len(items) : items[j].ok]
    ELSE Ok([i \in 1..Len(items) |-> items[Len(items) + 1 - i].cmds[1]])

\* collect::<Result<Vec<_>, _>>(): the first Err in order, or every Ok value
Collect(items) ==
  IF \E i \in 1..Len(items) : ~items[i].ok
    THEN items[CHOOSE i \in 1..Len(items) : ~items[i].ok /\ \A j \in 1..(i - 1) : items[j].ok]
    ELSE Ok([i \in 1..Len(items) |-> items[i].cmds[1]])

\* Command::parse_comment
ParseComment(s) ==
  LET ls == Lines(s)
      ds == SelectSeq(ls, IsDirective)
  IN Collect([i \in 1..Len(ds) |-> ToCommand(Words(ds[i]))])

RECURSIVE TextsOfLen(_)
TextsOfLen(n) ==
  IF n = 0 THEN {<<>>} ELSE {Append(s, c) : s \in TextsOfLen(n - 1), c \in Symbols}

SampleLines ==
  { <<"cherry", "SP", "ping">>, <<"cherry", "SP", "merge">>, <<"cherry", "SP", "r+">>,
    <<"cherry", "SP", "x">>, <<"cherry">>, <<"x">>, <<"x", "SP", "cherry", "SP", "ping">>,
    <<"cherry", "SP", "ping", "SP", "x">>, <<"SP", "cherry", "SP", "r+">> }

LineEnds == {<<>>, <<"NL">>, <<"CR", "NL">>}

RECURSIVE TextsOfLines(_)
TextsOfLines(n) ==
  IF n = 0 THEN {<<>>}
  ELSE {s \o l \o e : s \in TextsOfLines(n - 1), l \in SampleLines, e \in LineEnds}

Texts ==
  UNION {TextsOfLen(n) : n \in 0..MaxLen} \cup UNION {TextsOfLines(n) : n \in 0..MaxLines}

InitParse ==
  /\ comment \in Texts
  /\ parsed = NotParsed

RestParse ==
  /\ comment = <<>>
  /\ parsed = NotParsed

Parse ==
  /\ parsed = NotParsed
  /\ parsed' = ParseComment(comment)
  /\ UNCHANGED <<comment, ctlvars, tokvars, webvars, migvars, rspvars>>

NextParse == Parse

\* ----------------------------------------------------- github/webhook/mod.rs
BAD_REQUEST == 400
ACCEPTED == 202

Deliveries == {"d1"}

\* the X-GitHub-Event header of a delivery
EventHeaders ==
  { [present |-> FALSE, utf8 |-> FALSE, value |-> ""],
    [present |-> TRUE, utf8 |-> FALSE, value |-> ""],
    [present |-> TRUE, utf8 |-> TRUE, value |-> "issue_comment"],
    [present |-> TRUE, utf8 |-> TRUE, value |-> "nyanyan"] }

CommentTexts ==
  { <<"x">>, <<"cherry", "SP", "ping">>, <<"cherry", "SP", "x">>, <<"cherry", "SP", "r+">>,
    <<"cherry", "SP", "ping", "NL", "cherry", "SP", "ping">>,
    <<"cherry", "SP", "ping", "NL", "cherry", "SP", "x">> }

\* JSON payloads: the issue_comment payload of the test data with its action,
\* its comment body and its issue.pull_request member varied, and two
\* payloads that lack a member
JsonIssue(pr) ==
  IF pr = "absent" THEN [number |-> 1, state |-> "open"]
  ELSE [number |-> 1, state |-> "open", pull_request |-> pr]

JsonPayload(a, text, pr) ==
  [action |-> a,
   issue |-> JsonIssue(pr),
   comment |-> [user |-> [login |-> "Codertocat"], body |-> text],
   repository |-> [id |-> 186853002, owner |-> [login |-> "Codertocat"],
                   name |-> "Hello-World"]]

JsonValues ==
  {JsonPayload(a, text, pr) : a \in {"created", "edited", "deleted", "labeled"},
                              text \in CommentTexts, pr \in {"absent", "null", "object"}}
  \cup {[action |-> "created", issue |-> JsonIssue("absent"),
         comment |-> [user |-> [login |-> "Codertocat"], body |-> <<"x">>]],
        [action |-> "created"]}

\* the bodies of a delivery: no bytes, bytes that are no JSON, a JSON value
Bodies ==
  {[json |-> FALSE, value |-> [bytes |-> "empty"]],
   [json |-> FALSE, value |-> [bytes |-> "not json"]]}
  \cup {[json |-> TRUE, value |-> v] : v \in JsonValues}

Has(v, k) == k \in DOMAIN v

\* serde's derived Deserialize of issue_comment::T: every member is required
\* but issue.pull_request, an Option of a unit struct (null or absent only)
Decodes(v) ==
  /\ Has(v, "action") /\ v.action \in {"created", "edited", "deleted"}
  /\ Has(v, "issue")
  /\ Has(v.issue, "state") /\ v.issue.state \in {"open", "closed"}
  /\ Has(v.issue, "number")
  /\ Has(v.issue, "pull_request") => v.issue.pull_request = "null"
  /\ Has(v, "comment")
  /\ Has(v.comment, "user") /\ Has(v.comment.user, "login")
  /\ Has(v.comment, "body")
  /\ Has(v, "repository")
  /\ Has(v.repository, "id") /\ Has(v.repository, "name")
  /\ Has(v.repository, "owner") /\ Has(v.repository.owner, "login")

DecodeTSwapped(v) ==
  [action |-> v.action,
   issue |-> [state |-> v.issue.state, pull_request |-> "None", number |-> v.issue.number],
   comment |-> [user |-> [login |-> v.comment.user.login], body |-> v.comment.body],
   repository |-> [id |-> v.repository.id, owner |-> v.repository.name,
                   repo |-> v.repository.owner.login]]

DecodeT(v) ==
  [action |-> v.action,
   issue |-> [state |-> v.issue.state, pull_request |-> "None", number |-> v.issue.number],
   comment |-> [user |-> [login |-> v.comment.user.login], body |-> v.comment.body],
   repository |-> [id |-> v.repository.id, owner |-> v.repository.owner.login,
                   repo |-> v.repository.name]]

\* serde_json::from_slice::<issue_comment::T>
FromSlice(body) ==
  IF body.json /\ Decodes(body.value) THEN [ok |-> TRUE, data |-> DecodeT(body.value)]
  ELSE [ok |-> FALSE, data |-> [error |-> "PayloadDeserialization"]]

Unknown == [kind |-> "Unknown"]

ParseOrUnknown(event_type, body) ==
  LET r == FromSlice(body)
  IN IF event_type = "issue_comment" /\ r.ok
       THEN [ok |-> TRUE, request |-> [kind |-> "IssueComment", data |-> r.data]]
       ELSE [ok |-> TRUE, request |-> Unknown]

\* WebhookRequest::parse
WebhookRequestParse(event_type, body) ==
  IF event_type = "issue_comment"
    THEN LET r == FromSlice(body)
         IN IF r.ok THEN [ok |-> TRUE, request |-> [kind |-> "IssueComment", data |-> r.data]]
            ELSE [ok |-> FALSE, request |-> Unknown]
    ELSE [ok |-> TRUE, request |-> Unknown]

NoDelivery == [pc |-> "pending", header |-> [present |-> FALSE, utf8 |-> FALSE, value |-> ""],
               body |-> [json |-> FALSE, value |-> [bytes |-> "empty"]], status |-> 0]

\* The sources hold two issue_comment handlers: module issue_comment written
\* out in webhook/mod.rs (lines 110-191), the one WebhookRequest::handle calls
\* with (d, credentials), and file webhook/issue_comment.rs, whose handle takes
\* the token cache as well. A spawned task runs one of the two.
Handlers == {"inline", "file"}

NoHandler == [pc |-> "none", request |-> Unknown, queue |-> <<>>, ran |-> <<>>,
              replies |-> <<>>, handler |-> "file"]

SpawnedAndAwaited(request) == [NoHandler EXCEPT !.pc = "done", !.request = request]

\* spawn(request.handle(..)): the task is queued, not polled
Spawned(request) == [NoHandler EXCEPT !.pc = "scheduled", !.request = request]

\* POST /webhook: the whole of webhook()
Webhook(d) ==
  /\ dv[d].pc = "pending"
  /\ \E h \in EventHeaders, b \in Bodies :
       LET r == WebhookRequestParse(h.value, b)
           answered == [dv[d] EXCEPT !.pc = "answered", !.header = h, !.body = b]
       IN IF ~h.present \/ ~h.utf8 \/ ~r.ok
            THEN /\ dv' = [dv EXCEPT ![d] = [answered EXCEPT !.status = BAD_REQUEST]]
                 /\ UNCHANGED hd
            ELSE /\ \E v \in Handlers :
                      hd' = [hd EXCEPT ![d] = [Spawned(r.request) EXCEPT !.handler = v]]
                 /\ dv' = [dv EXCEPT ![d] = [answered EXCEPT !.status = ACCEPTED]]
  /\ UNCHANGED <<ctlvars, tokvars, parvars, migvars, rspvars>>

\* ----------------------------------------- github/webhook/issue_comment.rs
MsgPong == <<"pong!">>
MsgParseError(token) == <<"Error: ", "unknown command: ", token>>
MsgCommandError(cmd) == <<"Error running command: ", cmd, ": ", "client operation">>

\* the for loop up to its next .await: Ping awaits context.reply("pong!"),
\* Merge is unimplemented!()
RunNext(h, queue) ==
  IF queue = <<>> THEN [h EXCEPT !.pc = "done", !.queue = <<>>]
  ELSE IF Head(queue) = "Ping"
    THEN [h EXCEPT !.pc = "reply_pong", !.queue = queue, !.ran = Append(h.ran, "Ping")]
  ELSE [h EXCEPT !.pc = "panicked", !.queue = queue, !.ran = Append(h.ran, "Merge")]

HandlerStartAnyAction(d) ==
  /\ hd[d].pc = "scheduled"
  /\ LET h == hd[d]
         r == ParseComment(h.request.data.comment.body)
     IN hd' = [hd EXCEPT ![d] =
          IF h.request.kind = "Unknown" THEN [h EXCEPT !.pc = "done"]
          ELSE IF ~r.ok THEN [h EXCEPT !.pc = "reply_parse_error"]
          ELSE RunNext(h, r.cmds)]
  /\ UNCHANGED <<dv, ctlvars, tokvars, parvars, migvars, rspvars>>

\* the first poll of the spawned task: WebhookRequest::handle, and for an
\* IssueComment issue_comment::handle up to its first .await; on a parse error
\* the handler of the file replies, the one in mod.rs logs and returns
HandlerStart(d) ==
  /\ hd[d].pc = "scheduled"
  /\ LET h == hd[d]
         data == h.request.data
         r == ParseComment(data.comment.body)
     IN hd' = [hd EXCEPT ![d] =
          IF h.request.kind = "Unknown" THEN [h EXCEPT !.pc = "done"]
          ELSE IF data.action # "created" THEN [h EXCEPT !.pc = "done"]
          ELSE IF ~r.ok
            THEN IF h.handler = "file" THEN [h EXCEPT !.pc = "reply_parse_error"]
                 ELSE [h EXCEPT !.pc = "done"]
          ELSE RunNext(h, r.cmds)]
  /\ UNCHANGED <<dv, ctlvars, tokvars, parvars, migvars, rspvars>>

\* context.reply returns: Ok(()) or an error; the handler in mod.rs drops the
\* result of command.run and goes on with the next command
HandlerReply(d) ==
  /\ hd[d].pc \in {"reply_parse_error", "reply_pong", "reply_command_error"}
  /\ \E ok \in BOOLEAN :
       LET h == hd[d]
           msg == CASE h.pc = "reply_parse_error" ->
                         MsgParseError(ParseComment(h.request.data.comment.body).token)
                    [] h.pc = "reply_pong" -> MsgPong
                    [] OTHER -> MsgCommandError("ping")
           said == [h EXCEPT !.replies = Append(h.replies, [message |-> msg, ok |-> ok])]
       IN hd' = [hd EXCEPT ![d] =
            IF h.pc = "reply_pong"
              THEN IF ok \/ h.handler = "inline" THEN RunNext(said, Tail(h.queue))
                   ELSE [said EXCEPT !.pc = "reply_command_error"]
              ELSE [said EXCEPT !.pc = "done"]]
  /\ UNCHANGED <<dv, ctlvars, tokvars, parvars, migvars, rspvars>>

HandlerStep(d) == HandlerStart(d) \/ HandlerReply(d)

InitWebhook ==
  /\ dv = [d \in Deliveries |-> NoDelivery]
  /\ hd = [d \in Deliveries |-> NoHandler]

NextWebhook ==
  \E d \in Deliveries :
    \/ Webhook(d)
    \/ HandlerStart(d)
    \/ HandlerReply(d)

\* ---------------------------------------------------------------------- db.rs
\* the migrations argument: the names of the migrations, in order
MigrationLists == {<<>>, <<"m1">>, <<"m1", "m2">>}

\* a row of _migration; null says that number or name holds NULL
MigrationRow(n, name) == [number |-> n, name |-> name, null |-> FALSE]

InitialRow == MigrationRow(0, "_initial")

NoTable == [exists |-> FALSE, rows |-> <<>>]

Table(rows) == [exists |-> TRUE, rows |-> rows]

\* m.create_table_if_not_exists("_migration", ..), run by sql() in a transaction
CreateTableIfNotExists(tbl) == IF tbl.exists THEN tbl ELSE Table(<<>>)

\* lines 84-104: the name expected for the recorded number, then the loop over
\* the migrations, whose body is unimplemented!()
Verdict(number, name, migrations) ==
  IF number # 0 /\ number \notin 1..Len(migrations) THEN "OutOfRange"
  ELSE IF name # (IF number = 0 THEN "_initial" ELSE migrations[number])
    THEN "IncorrectMigrationName"
  ELSE IF migrations # <<>> THEN "panic"
  ELSE "ok"

\* table0 is history: the table before the first run
MigIdle == [pc |-> "idle", result |-> "none", found |-> <<>>, runs |-> 0, migrations |-> <<>>,
            table0 |-> NoTable]

MigrateCall ==
  /\ mig.pc = "idle"
  /\ mig.runs < MaxRuns
  /\ mig' = [mig EXCEPT !.pc = "m_create", !.runs = @ + 1, !.result = "none", !.found = <<>>]
  /\ UNCHANGED <<migration_table, ctlvars, tokvars, parvars, webvars, rspvars>>

\* sql(db, [CREATE TABLE IF NOT EXISTS _migration ..])
MigrateCreateTable ==
  /\ mig.pc = "m_create"
  /\ migration_table' = CreateTableIfNotExists(migration_table)
  /\ mig' = [mig EXCEPT !.pc = "m_select"]
  /\ UNCHANGED <<ctlvars, tokvars, parvars, webvars, rspvars>>

MigrateReturn(res) == [mig EXCEPT !.pc = "idle", !.result = res]

\* the SELECT and what follows it without another statement
MigrateSelect ==
  /\ mig.pc = "m_select"
  /\ LET rows == migration_table.rows
         found == [mig EXCEPT !.found = rows]
     IN mig' = IF Len(rows) > 1 THEN [MigrateReturn("TooMuchState") EXCEPT !.found = rows]
               ELSE IF rows = <<>> THEN [found EXCEPT !.pc = "m_insert"]
               ELSE IF rows[1].null THEN [MigrateReturn("BadRow") EXCEPT !.found = rows]
               ELSE [MigrateReturn(Verdict(rows[1].number, rows[1].name, mig.migrations))
                       EXCEPT !.found = rows]
  /\ UNCHANGED <<migration_table, ctlvars, tokvars, parvars, webvars, rspvars>>

MigrateInsertTwice(tbl) == Table(tbl.rows \o <<InitialRow, InitialRow>>)

\* db.insert of the initial state
MigrateInsertInitial(tbl) == Table(Append(tbl.rows, InitialRow))

MigrateInsert ==
  /\ mig.pc = "m_insert"
  /\ migration_table' = MigrateInsertInitial(migration_table)
  /\ mig' = MigrateReturn(Verdict(0, "_initial", mig.migrations))
  /\ UNCHANGED <<ctlvars, tokvars, parvars, webvars, rspvars>>

InitTables ==
  {NoTable, Table(<<>>), Table(<<InitialRow, InitialRow>>),
   Table(<<[number |-> 0, name |-> "_initial", null |-> TRUE]>>)}
  \cup {Table(<<MigrationRow(n, name)>>) : n \in -1..3, name \in {"_initial", "m1", "m2"}}

InitMigrate ==
  /\ migration_table \in InitTables
  /\ mig \in {[MigIdle EXCEPT !.migrations = ms, !.table0 = migration_table] :
                ms \in MigrationLists}

RestMigrate ==
  /\ migration_table = NoTable
  /\ mig = MigIdle

NextMigrate ==
  \/ MigrateCall
  \/ MigrateCreateTable
  \/ MigrateSelect
  \/ MigrateInsert

\* ---------------------------------------------------------- specifications
InitSpecControl == InitControl /\ InitToken /\ RestParse /\ InitWebhook /\ RestMigrate /\ NoResponseYet

SpecControl == InitSpecControl /\ [][NextControl]_vars

InitSpecToken == RestControl /\ InitToken /\ RestParse /\ InitWebhook /\ RestMigrate /\ NoResponseYet

SpecToken == InitSpecToken /\ [][NextToken]_vars

\* a lookup that has been called is polled until it returns: the executor runs
\* a task that can take a step, and a released mutex wakes a waiting task
LookupStep(t) ==
  \/ Acquire(t)
  \/ AppTokenBody(t)
  \/ AppTokenMint(t)
  \/ RepoTokenRead(t)
  \/ RequestInstallation(t)
  \/ RequestAccessToken(t)
  \/ RepoTokenInsert(t)

\* the lookups race for the installation token of one repository
RaceRepo == "o/a"

\* a task starts repo_request for that repository
RaceCall(t) ==
  /\ lk[t].pc = "idle"
  /\ calls < MaxCalls
  /\ calls' = calls + 1
  /\ LkStep(t, [IdleLookup EXCEPT !.op = "repo", !.repo = RaceRepo, !.pc = "r_lock"])
  /\ UNCHANGED <<now, app_token, installation_tokens, mutex, issued,
                 last_app, prev_app, ctlvars, parvars, webvars, migvars, rspvars>>

NextRace ==
  \/ TickToken
  \/ \E t \in Lookups : RaceCall(t) \/ LookupStep(t)

SpecRace ==
  /\ InitSpecToken
  /\ [][NextRace]_vars
  /\ \A t \in Lookups : WF_vars(LookupStep(t))

InitSpecParse == RestControl /\ InitToken /\ InitParse /\ InitWebhook /\ RestMigrate /\ NoResponseYet

SpecParse == InitSpecParse /\ [][NextParse]_vars

InitSpecWebhook == RestControl /\ InitToken /\ RestParse /\ InitWebhook /\ RestMigrate /\ NoResponseYet

InitSpecMigrate == RestControl /\ InitToken /\ RestParse /\ InitWebhook /\ InitMigrate /\ NoResponseYet

SpecMigrate == InitSpecMigrate /\ [][NextMigrate]_vars

InitSpecResponse == RestControl /\ InitToken /\ RestParse /\ InitWebhook /\ RestMigrate /\ NoResponseYet

SpecResponse == InitSpecResponse /\ [][NextResponse]_vars

\* the runtime polls a spawned task until it ends
SpecWebhook ==
  InitSpecWebhook /\ [][NextWebhook]_vars /\ \A d \in Deliveries : WF_vars(HandlerStep(d))

\* ------------------------------------------------------------------ claims
NotSplitCount(r) == Cardinality(SelectNotSplit(merge_attempt, r))

\* C1 (progress invariant): in every reachable state, every repo has at most
\* one merge_attempt row whose state is not Split.
C1_ProgressInvariant == \A r \in Repos : NotSplitCount(r) <= 1

\* C2 (uniqueness): when two request calls for the same key, both of which saw
\* the PR open, have finished against a table that had no row for the key,
\* the table holds a row for the key, exactly one of the two calls inserted it
\* and the other posted "This PR is already being merged."; and the step that
\* posts that reply leaves the table as it is.
C2_Outcome ==
  \A t1, t2 \in Tasks :
    ( /\ t1 # t2
      /\ task[t1].op = "request" /\ task[t2].op = "request"
      /\ KeyOf(t1) = KeyOf(t2)
      /\ pull0[KeyOf(t1)] = NoRow
      /\ task[t1].seen = "open" /\ task[t2].seen = "open"
      /\ task[t1].pc = "done" /\ task[t2].pc = "done" )
    => /\ pull_request[KeyOf(t1)] # NoRow
       /\ task[t1].inserted # task[t2].inserted
       /\ \A t \in {t1, t2} : ~task[t].inserted => task[t].reply = MsgDup

C2_LoserLeavesRow ==
  \A t \in Tasks :
    (task[t].pc = "r_reply_dup" /\ task'[t] # task[t]) => pull_request' = pull_request

C2_Uniqueness == []C2_Outcome /\ [][C2_LoserLeavesRow]_vars

C2_Witness ==
  /\ task["t1"].op = "request" /\ task["t2"].op = "request"
  /\ KeyOf("t1") = KeyOf("t2")
  /\ pull0[KeyOf("t1")] = NoRow
  /\ task["t1"].pc = "done" /\ task["t2"].pc = "done"
  /\ task["t1"].inserted /\ task["t2"].reply = MsgDup

\* C3 (commit-hash stability): no step changes the commit_hash of a row that
\* is there before and after it; and the commit of initiate's reaction to a
\* moved head leaves no row for the key (the row is deleted, not rewritten).
C3_Step ==
  /\ \A k \in Keys :
       (pull_request[k] # NoRow /\ pull_request'[k] # NoRow)
         => pull_request'[k].commit_hash = pull_request[k].commit_hash
  /\ \A t \in Tasks :
       (task[t].pc = "i_commit" /\ task'[t] # task[t]) => pull_request'[KeyOf(t)] = NoRow

C3_HashStable == [][C3_Step]_vars

C3_Witness ==
  \E t \in Tasks :
    /\ task[t].op = "initiate" /\ task[t].reply = MsgCancelled
    /\ pull0[KeyOf(t)] # NoRow /\ pull_request[KeyOf(t)] = NoRow

\* C4 (token freshness): the token T returned by the latest app-token lookup,
\* made at instant t, has t < T.renew, T.renew = T.exp - 30 and
\* T.exp = T.iat + 600 (iat and exp being the claims the token string signs).
C4_TokenFreshness ==
  last_app.token # NoToken =>
    LET T == last_app.token
        iat == T.token[2]
        exp == T.token[3]
    IN /\ last_app.at < T.renew
       /\ T.renew = exp - 30
       /\ exp = iat + 600

C4_Witness ==
  /\ last_app.token # NoToken
  /\ ~last_app.minted
  /\ last_app.at > last_app.token.token[2]

\* C5 (cache hit idempotence): when an app-token lookup follows another on the
\* same cache at an instant before the renew deadline of the token the first
\* one returned, it returns the same token string and renew deadline and
\* mints nothing.
C5_CacheHitIdempotence ==
  (prev_app # NoToken /\ last_app.at < prev_app.renew)
    => /\ last_app.token.token = prev_app.token
       /\ last_app.token.renew = prev_app.renew
       /\ ~last_app.minted

C5_Witness ==
  /\ prev_app # NoToken
  /\ last_app.at < prev_app.renew
  /\ last_app.at > prev_app.token[2]

\* C6 (no lock across the network): a task whose HTTP call of
\* request_repo_token is in flight does not hold the cache mutex, and a task
\* that holds it is at a read or write of a cache slot (the slot read of
\* repo_token, app_token's check-or-mint, the insert of the new token).
C6_NoLockAcrossNetwork ==
  \A t \in Lookups :
    /\ lk[t].pc \in {"q_http1", "q_http2"} => mutex # t
    /\ mutex = t => lk[t].pc \in {"a_body", "q_app1_body", "q_app2_body",
                               "a_mint", "q_app1_mint", "q_app2_mint",
                               "r_read", "r_insert"}

C6_Witness ==
  \E t, u \in Lookups :
    /\ t # u
    /\ lk[t].op = "repo" /\ lk[t].pc = "q_http2"
    /\ mutex = u /\ lk[u].pc = "r_insert"

\* the directive lines of a text, read off the text itself: a line starts at
\* the head of the text and after each line feed, a token ends at a space, at
\* a line feed or at the end of the text
\* C7 (dispatch discipline): the step that answers a delivery 202 leaves its
\* handler scheduled, with no command run and no reply sent; an answered
\* delivery keeps its response whatever the handler does afterwards, a failed
\* reply included; and the scheduled handler is run until its task ends.
C7_Scheduled ==
  \A d \in Deliveries : dv[d].status = ACCEPTED => hd[d].pc # "none"

C7_Step ==
  \A d \in Deliveries :
    /\ dv[d].pc = "pending" /\ dv'[d].status = ACCEPTED
         => hd'[d].pc = "scheduled" /\ hd'[d].ran = <<>> /\ hd'[d].replies = <<>>
    /\ dv[d].pc = "answered" => dv'[d] = dv[d]

C7_HandlerEnds ==
  \A d \in Deliveries : hd[d].pc = "scheduled" ~> hd[d].pc \in {"done", "panicked"}

C7_DispatchDiscipline == []C7_Scheduled /\ [][C7_Step]_vars /\ C7_HandlerEnds

C7_Witness ==
  \E d \in Deliveries :
    /\ dv[d].status = ACCEPTED
    /\ hd[d].pc = "done"
    /\ \E i \in DOMAIN hd[d].replies : ~hd[d].replies[i].ok

\* C8 (webhook errors): a delivery without the event header, with an event
\* header that is not UTF-8, or with event issue_comment and a body that does
\* not decode is answered 400 and has no handler, then and ever after.
C8_Rejected(d) ==
  \/ ~dv[d].header.present
  \/ ~dv[d].header.utf8
  \/ dv[d].header.value = "issue_comment" /\ ~FromSlice(dv[d].body).ok

C8_BadRequest ==
  \A d \in Deliveries :
    dv[d].pc = "answered" /\ C8_Rejected(d)
      => dv[d].status = BAD_REQUEST /\ hd[d] = NoHandler

C8_Witness ==
  \E d \in Deliveries :
    /\ dv[d].pc = "answered"
    /\ dv[d].header.present /\ dv[d].header.utf8 /\ dv[d].header.value = "issue_comment"
    /\ dv[d].body.json /\ ~FromSlice(dv[d].body).ok
    /\ dv[d].status = BAD_REQUEST /\ hd[d].pc = "none"

\* C9 (event decoding): a delivery of any event type but issue_comment is
\* answered 202 with the Unknown request whatever its body, and its handler
\* runs no command and sends no reply; an accepted issue_comment delivery
\* carries the payload's action, issue number and state, comment author and
\* body, and repository id, owner login and name.
C9_OtherEvent(d) ==
  dv[d].pc = "answered" /\ dv[d].header.present /\ dv[d].header.utf8
  /\ dv[d].header.value # "issue_comment"

C9_Carries(data, v) ==
  /\ data.action = v.action
  /\ data.issue.number = v.issue.number
  /\ data.issue.state = v.issue.state
  /\ data.comment.user.login = v.comment.user.login
  /\ data.comment.body = v.comment.body
  /\ data.repository.id = v.repository.id
  /\ data.repository.owner = v.repository.owner.login
  /\ data.repository.repo = v.repository.name

C9_EventDecoding ==
  \A d \in Deliveries :
    /\ C9_OtherEvent(d)
         => /\ dv[d].status = ACCEPTED
            /\ hd[d].request.kind = "Unknown"
            /\ hd[d].pc \in {"scheduled", "done"}
            /\ hd[d].ran = <<>> /\ hd[d].replies = <<>>
    /\ dv[d].pc = "answered" /\ dv[d].header.value = "issue_comment"
       /\ dv[d].status = ACCEPTED
         => /\ hd[d].request.kind = "IssueComment"
            /\ C9_Carries(hd[d].request.data, dv[d].body.value)

C9_Witness ==
  \E d \in Deliveries :
    /\ C9_OtherEvent(d) /\ ~dv[d].body.json
    /\ dv[d].status = ACCEPTED /\ hd[d].pc = "done"

TokenEnd(s, p) ==
  CHOOSE q \in p..(Len(s) + 1) :
    /\ q = Len(s) + 1 \/ s[q] \in {"SP", "NL"}
    /\ \A k \in p..(q - 1) : s[k] \notin {"SP", "NL"}

TokenAt(s, p) == SubSeq(s, p, TokenEnd(s, p) - 1)

DirectiveStarts(s) ==
  {p \in 1..Len(s) : (p = 1 \/ s[p - 1] = "NL") /\ TokenAt(s, p) = <<"cherry">>}

HasSecond(s, p) == TokenEnd(s, p) <= Len(s) /\ s[TokenEnd(s, p)] = "SP"

SecondToken(s, p) == TokenAt(s, TokenEnd(s, p) + 1)

\* C10 (parser totality and order): what parse_comment returns for a text is
\* either an error naming a token ([none], or a run of the text free of spaces
\* and line feeds) or a list of Ping/Merge holding exactly one command per
\* directive line, in the order of those lines: Ping where the second token
\* is `ping`, Merge where it is `merge` or `r+`.
C10_ParserTotalOrder ==
  parsed # NotParsed =>
    IF parsed.ok
      THEN LET D == DirectiveStarts(comment)
           IN /\ Len(parsed.cmds) = Cardinality(D)
              /\ \A i \in 1..Len(parsed.cmds) : parsed.cmds[i] \in {"Ping", "Merge"}
              /\ \A p \in D :
                   LET i == Cardinality({q \in D : q <= p})
                   IN HasSecond(comment, p) =>
                        /\ SecondToken(comment, p) = <<"ping">> => parsed.cmds[i] = "Ping"
                        /\ SecondToken(comment, p) \in {<<"merge">>, <<"r+">>}
                             => parsed.cmds[i] = "Merge"
      ELSE \/ parsed.token = <<"[none]">>
           \/ \E a \in 1..(Len(comment) + 1), b \in 0..Len(comment) :
                /\ parsed.token = SubSeq(comment, a, b)
                /\ \A k \in a..b : comment[k] \notin {"SP", "NL"}

C10_Witness ==
  /\ parsed # NotParsed /\ parsed.ok
  /\ parsed.cmds = <<"Merge", "Ping">>
  /\ Cardinality(DirectiveStarts(comment)) = 2

\* ---- lines of a text, read off the text itself
LineStarts(s) == {p \in 1..Len(s) : p = 1 \/ s[p - 1] = "NL"}

LineStop(s, p) ==
  CHOOSE q \in p..(Len(s) + 1) :
    /\ q = Len(s) + 1 \/ s[q] = "NL"
    /\ \A k \in p..(q - 1) : s[k] # "NL"

\* the line at p without its terminator ("\n" or "\r\n")
LineAt(s, p) ==
  LET q == LineStop(s, p)
  IN IF q <= Len(s) /\ q > p /\ s[q - 1] = "CR" THEN SubSeq(s, p, q - 2)
     ELSE SubSeq(s, p, q - 1)

FirstToken(l) ==
  IF \E i \in 1..Len(l) : l[i] = "SP"
    THEN SubSeq(l, 1, (CHOOSE i \in 1..Len(l) : l[i] = "SP" /\ \A k \in 1..(i - 1) : l[k] # "SP") - 1)
    ELSE l

OtherLines(s) == {p \in LineStarts(s) : FirstToken(LineAt(s, p)) # <<"cherry">>}

\* the text without the line at p, and with the line at p replaced by l
WithoutLine(s, p) == SubSeq(s, 1, p - 1) \o SubSeq(s, LineStop(s, p) + 1, Len(s))

WithLine(s, p, l) == SubSeq(s, 1, p - 1) \o l \o SubSeq(s, LineStop(s, p), Len(s))

OtherSamples ==
  {<<>>, <<"x">>, <<"x", "SP", "cherry", "SP", "x">>, <<"SP", "cherry", "SP", "ping">>,
   <<"cherry", "x", "SP", "merge">>, <<"ping">>}

\* C11 (line locality): removing a line of the comment whose first token is not
\* `cherry`, or replacing it by another such line, gives a comment for which
\* parse_comment returns the same result; read backwards, so does inserting one.
C11_LineLocality ==
  parsed # NotParsed =>
    \A p \in OtherLines(comment) :
      /\ ParseComment(WithoutLine(comment, p)) = parsed
      /\ \A l \in OtherSamples : ParseComment(WithLine(comment, p, l)) = parsed

C11_Witness ==
  /\ parsed # NotParsed /\ parsed.ok /\ parsed.cmds = <<"Ping">>
  /\ \E p \in OtherLines(comment) : LineAt(comment, p) = <<"x", "SP", "cherry", "SP", "ping">>

DirectiveLines(s) == LineStarts(s) \ OtherLines(s)

\* the second space-separated token of a line, [none] if it has one token only
SecondOf(l) ==
  IF \A i \in 1..Len(l) : l[i] # "SP" THEN <<"[none]">>
  ELSE FirstToken(SubSeq(l, Len(FirstToken(l)) + 2, Len(l)))

UnknownLines(s) ==
  {p \in DirectiveLines(s) :
     SecondOf(LineAt(s, p)) \notin {<<"ping">>, <<"merge">>, <<"r+">>}}

\* C12 (unknown directive): when some directive line of the comment has no
\* second token, or one that is not `ping`, `merge` or `r+`, parse_comment
\* returns an error that carries no command and names the second token of the
\* first such line ([none] if that line has none), whatever the lines before it.
C12_UnknownDirective ==
  (parsed # NotParsed /\ UnknownLines(comment) # {}) =>
    LET p == CHOOSE q \in UnknownLines(comment) : \A r \in UnknownLines(comment) : q <= r
    IN /\ ~parsed.ok
       /\ "cmds" \notin DOMAIN parsed
       /\ parsed.token = SecondOf(LineAt(comment, p))

C12_Witness ==
  /\ parsed # NotParsed /\ ~parsed.ok /\ parsed.token = <<"x">>
  /\ \E p \in DirectiveLines(comment), q \in UnknownLines(comment) :
       p < q /\ SecondOf(LineAt(comment, p)) = <<"ping">>

\* C13 (Merge enters request): a handler that has run the Merge command of a
\* comment has not panicked, and a request call of the controller was started
\* for it.
C13_MergeRequests ==
  \A d \in Deliveries :
    (hd[d].ran # <<>> /\ hd[d].ran[Len(hd[d].ran)] = "Merge")
      => /\ hd[d].pc # "panicked"
         /\ \E t \in Tasks : task[t].op = "request"

ValidRow(row, ms) ==
  /\ ~row.null
  /\ \/ row.number = 0 /\ row.name = "_initial"
     \/ row.number \in 1..Len(ms) /\ row.name = ms[row.number]

OneValidRow(tbl, ms) == tbl.exists /\ Len(tbl.rows) = 1 /\ ValidRow(tbl.rows[1], ms)

C14_AfterRuns ==
  ( /\ ~mig.table0.exists \/ mig.table0.rows = <<>> \/ OneValidRow(mig.table0, mig.migrations)
    /\ mig.runs >= 1 /\ mig.pc = "idle" )
  => migration_table.exists /\ Len(migration_table.rows) = 1

C14_RunOnValidRow ==
  (mig.pc \in {"m_create", "m_select"} /\ OneValidRow(migration_table, mig.migrations))
  => migration_table' = migration_table /\ mig'.pc # "m_insert"

\* C14 (migration singleton): from a store whose _migration is absent, empty
\* or holds one valid row, _migration holds exactly one row after every run of
\* a sequence of migrate runs; and no step of a run that meets an existing
\* valid row inserts or changes a row.
C14_MigrationSingleton == []C14_AfterRuns /\ [][C14_RunOnValidRow]_vars

C14_Witness ==
  /\ ~mig.table0.exists
  /\ mig.runs = MaxRuns /\ mig.pc = "idle"
  /\ migration_table = Table(<<InitialRow>>)

C15_Step ==
  \A t \in Tasks :
    (task[t].op = "initiate" /\ task[t].reply = MsgCancelled /\ task'[t] # task[t])
      => pull_request' = pull_request

\* C15 (initiate returns after the cancel reply): once an initiate call has
\* posted "Merge cancelled: a new commit was pushed to the PR.", no step of
\* that call changes table pull_request, whatever rows other calls have
\* inserted in the meantime.
C15_ReturnsAfterCancel == [][C15_Step]_vars

ConstructPcs == {"c_begin", "c_select", "c_select_split", "c_update", "c_insert"}

C16_Step ==
  \A t \in Tasks :
    (task[t].pc \in ConstructPcs /\ task'[t] # task[t] /\ task'[t].tx # "committed")
      => merge_attempt' = merge_attempt

\* C16 (construct writes in its transaction): no step of construct other than
\* the commit of the transaction it opened changes table merge_attempt, so a
\* construct that ends without committing leaves the table as it found it.
C16_WritesInTransaction == [][C16_Step]_vars

OfRepo(tbl, r) == {a \in tbl : a.repo = r}

Ids(tbl) == {a.id : a \in tbl}

C17_Step ==
  \A t \in Tasks :
    ( /\ task[t].pc \in {"c_update", "c_insert"} /\ task'[t].pc = "done"
      /\ \A u \in Tasks \ {t} : task[u].pc = "idle" )
    => LET r == task[t].repo
       IN /\ Cardinality(SelectNotSplit(merge_attempt', r)) = 1
          /\ \A q \in Repos \ {r} : OfRepo(merge_attempt', q) = OfRepo(merge_attempt, q)
          /\ task[t].pc = "c_update" =>
               /\ Ids(merge_attempt') = Ids(merge_attempt)
               /\ \E a \in SelectSplit(merge_attempt, r) :
                    merge_attempt' = (merge_attempt \ {a})
                       \cup {AttemptRow(a.id, r, "constructing", clock)}
          /\ task[t].pc = "c_insert" =>
               \E a \in merge_attempt' :
                 /\ a.id \notin Ids(merge_attempt) /\ a.state = "constructing" /\ a.repo = r
                 /\ merge_attempt' = merge_attempt \cup {a}

\* C17 (construct): the step that ends a construct call which ran alone and
\* found no attempt of the repo outside Split leaves the repo with exactly one
\* such attempt and the other repos' attempts as they were: a Split attempt of
\* the repo, if there was one, is now Constructing with the current timestamp
\* and no row was added; otherwise one row with a fresh id was added.
C17_ConstructStarts == [][C17_Step]_vars

Active(tbl, r) ==
  {a \in tbl : a.repo = r /\ a.state \in {"constructing", "testing", "success"}}

C18_Step ==
  \A t \in Tasks :
    (task[t].pc \in {"c_begin", "c_select"} /\ task'[t] # task[t])
      => /\ merge_attempt' = merge_attempt /\ pull_request' = pull_request
         /\ (task[t].pc = "c_select" /\ Active(merge_attempt, task[t].repo) # {})
              => task'[t].pc = "done" /\ task'[t].result = "ok"

\* C18 (construct with an attempt in progress): the steps of construct up to
\* its first SELECT change neither table, and when that SELECT meets an attempt
\* of the repo in Constructing, Testing or Success the call returns Ok there.
C18_ConstructNoop == [][C18_Step]_vars

C18_Witness ==
  \E t \in Tasks :
    /\ task[t].op = "construct" /\ task[t].pc = "done" /\ task[t].result = "ok"
    /\ \E a \in Active(merge_attempt, task[t].repo) : a.state = "success"
    /\ pull_request = pull0

C19_Step ==
  \A t \in Tasks :
    /\ (task[t].pc = "r_insert" /\ pull_request[KeyOf(t)] = NoRow /\ task'[t] # task[t])
         => /\ pull_request' =
                 [pull_request EXCEPT ![KeyOf(t)] =
                    PullRow(task[t].head, IF task[t].draft THEN "requested" ELSE "queued", clock)]
            /\ task'[t].pc = IF task[t].draft THEN "r_reply_draft" ELSE "c_begin"
    /\ (task[t].pc = "r_reply_draft" /\ task'[t] # task[t])
         => /\ task'[t].reply = MsgDraft /\ task'[t].pc = "done"
            /\ pull_request' = pull_request /\ merge_attempt' = merge_attempt

\* C19 (request inserts): the INSERT of a request for a key without a row adds
\* exactly the row (fetched head, Queued if the PR is no draft and Requested if
\* it is, current timestamp); a Queued insert is followed by construct for the
\* repo, a Requested one by the "cannot be merged yet" reply, after which the
\* call ends without touching either table.
C19_RequestInserts == [][C19_Step]_vars

C19_Witness ==
  \E t \in Tasks :
    /\ task[t].op = "request" /\ task[t].inserted /\ task[t].pc = "c_select"
    /\ pull0[KeyOf(t)] = NoRow
    /\ pull_request[KeyOf(t)] = PullRow("h2", "queued", 1)

C20_Step ==
  \A t \in Tasks :
    /\ (task[t].pc = "r_insert" /\ pull_request[KeyOf(t)] # NoRow /\ task'[t] # task[t])
         => pull_request' = pull_request /\ task'[t].pc = "r_reply_dup"
    /\ (task[t].pc = "r_reply_dup" /\ task'[t] # task[t])
         => /\ task'[t].reply = MsgDup /\ task'[t].pc = "done"
            /\ task'[t].result \in {"ok", "err"}
            /\ pull_request' = pull_request /\ merge_attempt' = merge_attempt

\* C20 (duplicate request): the INSERT of a request for a key that has a row
\* changes nothing and leads to the reply "This PR is already being merged.";
\* the call then ends with what posting that reply returned (Ok once it is
\* posted), having started no construct and changed neither table.
C20_DuplicateRequest == [][C20_Step]_vars

C20_Witness ==
  \E t \in Tasks :
    /\ task[t].op = "request" /\ task[t].pc = "done" /\ task[t].result = "ok"
    /\ task[t].reply = MsgDup /\ ~task[t].inserted
    /\ pull0[KeyOf(t)] # NoRow /\ pull_request = pull0

C21_Step ==
  \A t \in Tasks :
    /\ (task[t].pc = "r_fetch" /\ task'[t].seen = "closed")
         => /\ task'[t].pc = "r_reply_closed"
            /\ pull_request' = pull_request /\ merge_attempt' = merge_attempt
    /\ (task[t].pc = "r_reply_closed" /\ task'[t] # task[t])
         => /\ task'[t].reply = MsgClosed /\ task'[t].pc = "done"
            /\ task'[t].result \in {"ok", "err"} /\ ~task'[t].inserted
            /\ pull_request' = pull_request /\ merge_attempt' = merge_attempt

\* C21 (request on a closed PR): a request that fetches a closed PR goes
\* straight to the reply "Error: Refusing to merge PR in closed state." and
\* ends with what posting it returned (Ok once it is posted); none of its
\* steps inserts a row, starts construct or changes either table.
C21_RequestClosed == [][C21_Step]_vars

C21_Witness ==
  \E t \in Tasks :
    /\ task[t].op = "request" /\ task[t].pc = "done" /\ task[t].result = "ok"
    /\ task[t].seen = "closed" /\ task[t].reply = MsgClosed
    /\ pull_request = pull0 /\ pull0[KeyOf(t)] = NoRow

C22_Step ==
  \A t \in Tasks :
    (task[t].op = "initiate" /\ task'[t] # task[t]) =>
      /\ \A k \in Keys :
           ( /\ pull_request[k] # NoRow /\ pull_request'[k] # NoRow
             /\ pull_request'[k].state # pull_request[k].state )
           => /\ pull_request[k].state = "requested" /\ pull_request'[k].state = "queued"
              /\ task[t].seen = "open" /\ task[t].ready
              /\ pull_request[k].commit_hash = task[t].head
              /\ task[t].reply = "none"
      /\ (task[t].pc = "i_fetch" /\ task'[t].seen = "open" /\ ~task'[t].ready)
           => /\ task'[t].pc = "done" /\ task'[t].reply = "none"
              /\ pull_request' = pull_request
      /\ ( /\ task[t].pc = "i_select"
            /\ pull_request[KeyOf(t)].state \in {"absent", "queued", "merging", "split"} )
           => /\ task'[t].pc = "done" /\ task'[t].reply = "none"
              /\ pull_request' = pull_request

\* C22 (initiate queues): a step of initiate changes the state of a row only
\* from Requested to Queued, and only in a call that saw the PR open and ready,
\* found the stored commit_hash equal to the head and posted no reply; a call
\* that sees the PR open but not ready, or whose SELECT finds no row or a row
\* in Queued, Merging or Split, ends there with the table as it is and no reply.
C22_InitiateQueues == [][C22_Step]_vars

C23_Step ==
  \A t \in Tasks :
    /\ (task[t].pc = "i_fetch" /\ task'[t].seen = "closed")
         => /\ task'[t].pc = "i_delete_closed"
            /\ pull_request' = pull_request /\ merge_attempt' = merge_attempt
    /\ (task[t].pc = "i_delete_closed" /\ task'[t] # task[t])
         => /\ pull_request' = [pull_request EXCEPT ![KeyOf(t)] = NoRow]
            /\ merge_attempt' = merge_attempt
            /\ task'[t].pc = "done" /\ task'[t].result = "ok" /\ task'[t].reply = "none"

\* C23 (initiate on a closed PR): an initiate that fetches a closed PR issues
\* one DELETE, after which the key has no row whatever state its row was in,
\* the rows of other keys and table merge_attempt are as before, and the call
\* has ended with Ok and no reply.
C23_InitiateClosed == [][C23_Step]_vars

C23_Witness ==
  \E t \in Tasks :
    /\ task[t].op = "initiate" /\ task[t].pc = "done" /\ task[t].seen = "closed"
    /\ pull0[KeyOf(t)] # NoRow /\ pull0[KeyOf(t)].state = "merging"
    /\ pull_request[KeyOf(t)] = NoRow

CreatedComment(d) ==
  /\ hd[d].pc # "none"
  /\ hd[d].request.kind = "IssueComment"
  /\ hd[d].request.data.action = "created"

BodyOf(d) == hd[d].request.data.comment.body

\* C24 (parse failure in the handler): when the body of a created issue_comment
\* has a directive line whose command is unknown, the handler ends having posted
\* exactly one reply, "Error: " followed by the text of the parse error, and has
\* run no command, not even those of valid directive lines of the comment.
C24_ParseErrorReply ==
  \A d \in Deliveries :
    (CreatedComment(d) /\ UnknownLines(BodyOf(d)) # {})
      => /\ hd[d].ran = <<>>
         /\ hd[d].pc = "done"
              => /\ Len(hd[d].replies) = 1
                 /\ \E tok \in {SecondOf(LineAt(BodyOf(d), p)) : p \in UnknownLines(BodyOf(d))} :
                      hd[d].replies[1].message = MsgParseError(tok)

\* C25 (commands in order, stop at the first failure): the commands the handler
\* has run are a prefix of the parsed commands in parse order; once the reply of
\* a command has failed no further command is run, the one reply posted after
\* it is "Error running command: <cmd>: <err>", and the handler then ends
\* whether or not that reply succeeds.
C25_CommandOrder ==
  \A d \in Deliveries :
    CreatedComment(d) =>
      LET h == hd[d]
          r == ParseComment(BodyOf(d))
      IN /\ h.ran # <<>> =>
              /\ r.ok /\ Len(h.ran) <= Len(r.cmds)
              /\ \A j \in 1..Len(h.ran) : h.ran[j] = r.cmds[j]
         /\ \A i \in 1..Len(h.replies) :
              (h.replies[i].message = MsgPong /\ ~h.replies[i].ok)
                => /\ Len(h.ran) = i
                   /\ Len(h.replies) <= i + 1
                   /\ Len(h.replies) = i => h.pc = "reply_command_error"
                   /\ Len(h.replies) = i + 1
                        => /\ h.replies[i + 1].message = MsgCommandError("ping")
                           /\ h.pc = "done"

\* C26 (ignored comments): for an issue_comment delivery whose action is edited
\* or deleted, and for a created one whose body has no directive line, the
\* handler runs no command and makes no reply attempt, the only place where it
\* would ask for a token, and ends at its first step.
C26_SilentIgnore ==
  \A d \in Deliveries :
    (/\ hd[d].pc # "none"
     /\ hd[d].request.kind = "IssueComment"
     /\ \/ hd[d].request.data.action \in {"edited", "deleted"}
        \/ DirectiveLines(BodyOf(d)) = {})
      => /\ hd[d].replies = <<>>
         /\ hd[d].ran = <<>>
         /\ hd[d].pc \in {"scheduled", "done"}

C26_Witness ==
  \E d \in Deliveries :
    /\ hd[d].pc = "done"
    /\ hd[d].request.kind = "IssueComment"
    /\ hd[d].request.data.action = "edited"
    /\ DirectiveLines(BodyOf(d)) # {}
    /\ hd[d].replies = <<>>

\* the finished installation-token lookups for repository r
FinishedOn(r) ==
  {t \in Lookups : lk[t].op = "repo" /\ lk[t].repo = r /\ lk[t].pc = "idle"
                   /\ lk[t].ret # NoToken}

C27_Slot ==
  \A r \in Repos :
    /\ installation_tokens[r] # NoToken
         => \E n \in 1..issued : installation_tokens[r].token = <<"inst", n>>
    /\ FinishedOn(r) = Lookups
         => installation_tokens[r] \in {lk[t].ret : t \in Lookups}

C27_Step ==
  /\ C27_Slot'
  /\ \A t \in Lookups :
       (lk[t].op = "repo" /\ lk[t].pc # "idle" /\ lk'[t].pc = "idle"
        /\ lk'[t].ret = NoToken)
         => lk[t].pc \in {"q_http1", "q_http2"}

\* C27 (racing renewals): every installation-token lookup that has been called
\* returns, whatever other lookups run beside it; it returns a token unless one
\* of its HTTP calls failed; a cache slot only ever holds a token some lookup
\* minted, and once every task's lookup for a repository has returned a token
\* the slot of that repository holds one of the tokens they returned.
C27_RacingRenewals ==
  /\ [][C27_Step]_vars
  /\ \A t \in Lookups : (lk[t].pc # "idle") ~> (lk[t].pc = "idle")

C27_Witness ==
  \E r \in Repos :
    /\ FinishedOn(r) = Lookups
    /\ \A t, u \in Lookups : t # u => lk[t].ret # lk[u].ret
    /\ issued = 2
    /\ installation_tokens[r] \in {lk[t].ret : t \in Lookups}

AppBodyPcs == {"a_body", "q_app1_body", "q_app2_body", "a_mint", "q_app1_mint", "q_app2_mint"}

\* C29 (app-token atomicity): a task that is between the staleness check and
\* the store of TokenCache::app_token holds the cache mutex; and as long as the
\* renew deadline of the first app token minted has not come, one token has
\* been minted, the cache holds it and every app-token lookup has returned it.
C29_AppTokenAtomic ==
  /\ \A t \in Lookups : lk[t].pc \in AppBodyPcs => mutex = t
  /\ (last_app.first # NoToken /\ now < last_app.first.renew)
       => /\ last_app.mints = 1
          /\ app_token = last_app.first
          /\ last_app.token = last_app.first
          /\ \A t \in Lookups :
               (lk[t].op = "app" /\ lk[t].pc = "idle") => lk[t].ret = last_app.first

C29_Witness ==
  /\ last_app.first # NoToken /\ now < last_app.first.renew
  /\ last_app.mints = 1
  /\ calls = 2
  /\ \A t \in Lookups :
       lk[t].op = "app" /\ lk[t].pc = "idle" /\ lk[t].ret = last_app.first

\* C28 (response_ok): response_ok returns Ok exactly for a status below 400,
\* and for a status of 400 or more it returns ServerErrorResponse with that
\* status.
C28_ResponseOk ==
  response # NoResponse =>
    /\ response.result.ok <=> response.status < 400
    /\ response.status >= 400
         => /\ ~response.result.ok
            /\ response.result.error = "ServerErrorResponse"
            /\ response.result.status = response.status

====
